---------------------------- MODULE Spec2Model ----------------------------
(***************************************************************************)
(* A model of deiu/rdf2go: the RDF term model and the conversion layer     *)
(* (term.go), and the in-memory triple store with its parsers, loader and  *)
(* serializers (graph.go).                                                 *)
(*                                                                         *)
(* Go strings are modelled as sequences of one-character strings, so that  *)
(* escaping, prefix tests and concatenation are computed, not assumed.     *)
(* A *Triple is an index into heap (allocation identity); g.triples, a Go  *)
(* map[*Triple]bool, is the set of indices it holds; g_uri and g_term are  *)
(* the graph's two other fields. last records the call made last; chans    *)
(* holds the channels made by IterTriples with their goroutines and call   *)
(* the calls in progress, for the goroutine-level specification SpecIter.  *)
(***************************************************************************)
EXTENDS Integers, Sequences, FiniteSets, TLC

VARIABLES heap, triples, otherTriples, g_uri, g_term, last, chans, call

vars == <<heap, triples, otherTriples, g_uri, g_term, last, chans, call>>

(***************************************************************************)
(* Bounds of the model.                                                    *)
(***************************************************************************)
\* Triple objects allocated by NewTriple in one behaviour of Spec.
MaxAlloc == 2
\* Triple objects allocated by NewTriple in one behaviour of SpecMerge.
MaxMerge == 3
\* Length of a literal's lexical value in the term specification.
MaxLen == 2
\* Triple objects allocated by Parse, LoadURI and ReadFile in one behaviour
\* of SpecIO.
MaxParse == 3
\* Triples stored in one behaviour of SpecSerialize.
MaxSerialize == 2
\* Length of an IRI, a blank-node id and a lexical value in SpecConvert.
MaxConvert == 2
\* Triple objects allocated by AddTriple in one behaviour of SpecIter.
MaxIter == 2
\* Calls of IterTriples in one behaviour of SpecIter.
MaxChans == 2

(***************************************************************************)
(* Strings.                                                                *)
(***************************************************************************)
SeqsUpTo(S, n) == UNION {[1..k -> S] : k \in 0..n}

\* strings.HasPrefix(s, prefix) for a one-character prefix.
HasPrefix(s, c) == Len(s) > 0 /\ s[1] = c

\* strings.Replace(s, old, new, -1) for a one-character old: every
\* occurrence of old, left to right, becomes new.
RECURSIVE Replace(_, _, _)
Replace(s, old, new) ==
    IF s = <<>> THEN <<>>
    ELSE (IF Head(s) = old THEN new ELSE <<Head(s)>>) \o Replace(Tail(s), old, new)

(***************************************************************************)
(* Terms (term.go).  A Term interface value is a record tagged by its      *)
(* dynamic type; the nil interface is Nil.                                 *)
(***************************************************************************)
Nil == [kind |-> "nil"]

NewResource(uri) == [kind |-> "Resource", URI |-> uri]

NewLiteral(value) ==
    [kind |-> "Literal", Value |-> value, Language |-> <<>>, Datatype |-> Nil]

NewLiteralWithLanguage(value, language) ==
    [kind |-> "Literal", Value |-> value, Language |-> language, Datatype |-> Nil]

NewLiteralWithDatatype(value, datatype) ==
    [kind |-> "Literal", Value |-> value, Language |-> <<>>, Datatype |-> datatype]

\* &Literal{Value: value, Language: language, Datatype: datatype}
Literal(value, language, datatype) ==
    [kind |-> "Literal", Value |-> value, Language |-> language, Datatype |-> datatype]

NewBlankNode(id) == [kind |-> "BlankNode", ID |-> id]

\* The Term implementation of the test suite that is none of the three
\* variants: &fakeTerm{URI: ...}.
fakeTerm(uri) == [kind |-> "fakeTerm", URI |-> uri]

\* term.RawValue() through the Term interface.
RawValue(term) ==
    CASE term.kind = "Resource"  -> term.URI
      [] term.kind = "Literal"   -> term.Value
      [] term.kind = "BlankNode" -> term.ID
      [] term.kind = "fakeTerm"  -> <<>>

\* Resource.Equal comparing raw values without the type assertion.
ResourceEqualRaw(term, other) == term.URI = RawValue(other)

\* (term Resource) Equal(other Term)
ResourceEqual(term, other) ==
    IF other.kind = "Resource" THEN term.URI = other.URI ELSE FALSE

\* BlankNode.Equal holding any two blank nodes equal.
BlankNodeEqualAny(term, other) == other.kind = "BlankNode"

\* (term BlankNode) Equal(other Term)
BlankNodeEqual(term, other) ==
    IF other.kind = "BlankNode" THEN term.ID = other.ID ELSE FALSE

\* (tt *fakeTerm) Equal(term Term)
fakeTermEqual(term, other) == FALSE

RECURSIVE Equal(_, _)

\* Literal.Equal without the test of term.go:135-137: a missing datatype
\* matches any datatype.
LiteralEqualLoose(term, other) ==
    IF other.kind # "Literal" THEN FALSE
    ELSE IF term.Value # other.Value THEN FALSE
    ELSE IF term.Language # other.Language THEN FALSE
    ELSE IF term.Datatype # Nil /\ other.Datatype # Nil
            /\ ~Equal(term.Datatype, other.Datatype) THEN FALSE
    ELSE TRUE

\* (term Literal) Equal(other Term); the datatype comparison dispatches on
\* the datatype's dynamic type.
LiteralEqual(term, other) ==
    IF other.kind # "Literal" THEN FALSE
    ELSE IF term.Value # other.Value THEN FALSE
    ELSE IF term.Language # other.Language THEN FALSE
    ELSE IF (term.Datatype = Nil /\ other.Datatype # Nil)
            \/ (term.Datatype # Nil /\ other.Datatype = Nil) THEN FALSE
    ELSE IF term.Datatype # Nil /\ other.Datatype # Nil
            /\ ~Equal(term.Datatype, other.Datatype) THEN FALSE
    ELSE TRUE

\* term.Equal(other) through the Term interface.
Equal(term, other) ==
    CASE term.kind = "Resource"  -> ResourceEqual(term, other)
      [] term.kind = "Literal"   -> LiteralEqual(term, other)
      [] term.kind = "BlankNode" -> BlankNodeEqual(term, other)
      [] term.kind = "fakeTerm"  -> fakeTermEqual(term, other)

\* atLang(lang)
atLang(lang) ==
    IF Len(lang) > 0
    THEN IF HasPrefix(lang, "@") THEN lang ELSE <<"@">> \o lang
    ELSE <<>>

\* (term Resource) String()
ResourceString(term) == <<"<">> \o term.URI \o <<">">>

\* (term BlankNode) String()
BlankNodeString(term) == <<"_", ":">> \o term.ID

\* The replacements of Literal.String with the backslash replaced last.
EscapeValueBackslashLast(value) ==
    LET s1 == Replace(value, "\"", <<"\\", "\"">>)
        s2 == Replace(s1, "\n", <<"\\", "n">>)
        s3 == Replace(s2, "\r", <<"\\", "r">>)
        s4 == Replace(s3, "\t", <<"\\", "t">>)
        s5 == Replace(s4, "\\", <<"\\", "\\">>)
    IN  s5

\* The five strings.Replace calls of Literal.String, in the code's order.
EscapeValue(value) ==
    LET s1 == Replace(value, "\\", <<"\\", "\\">>)
        s2 == Replace(s1, "\"", <<"\\", "\"">>)
        s3 == Replace(s2, "\n", <<"\\", "n">>)
        s4 == Replace(s3, "\r", <<"\\", "r">>)
        s5 == Replace(s4, "\t", <<"\\", "t">>)
    IN  s5

RECURSIVE String(_)

\* (term Literal) String()
LiteralString(term) ==
    LET quoted == <<"\"">> \o EscapeValue(term.Value) \o <<"\"">>
        tagged == quoted \o atLang(term.Language)
    IN  IF term.Datatype # Nil
        THEN tagged \o <<"^", "^">> \o String(term.Datatype)
        ELSE tagged

\* term.String() through the Term interface.
String(term) ==
    CASE term.kind = "Resource"  -> ResourceString(term)
      [] term.kind = "Literal"   -> LiteralString(term)
      [] term.kind = "BlankNode" -> BlankNodeString(term)
      [] term.kind = "fakeTerm"  -> <<>>

(***************************************************************************)
(* Triples.  triple.go is not among the sources: the struct's fields are   *)
(* the ones graph.go reads, the constructor and Equal follow the           *)
(* specification and the call sites.                                       *)
(***************************************************************************)
\* The value a *Triple points to.
NewTriple(s, p, o) == [Subject |-> s, Predicate |-> p, Object |-> o]

\* (t *Triple) Equal(other *Triple)
TripleEqual(t, other) ==
    /\ Equal(t.Subject, other.Subject)
    /\ Equal(t.Predicate, other.Predicate)
    /\ Equal(t.Object, other.Object)

\* The nil *Triple.
NilTriple == 0

\* testUri of the tests, "https://example.org", cut after the host's first
\* letter.
testUri == <<"h", "t", "t", "p", "s", ":", "/", "/", "e">>

(***************************************************************************)
(* The terms the graph specifications draw from: an IRI, a blank node and  *)
(* a literal that share the text "a", and a second IRI.                    *)
(***************************************************************************)
ResA == NewResource(<<"a">>)
ResB == NewResource(<<"b">>)
BNodeA == NewBlankNode(<<"a">>)
LitA == NewLiteral(<<"a">>)

\* The (subject, predicate, object) arguments of NewTriple and AddTriple:
\* any two of them agree in at most one position, and every pair of
\* positions takes all four combinations of values.
TripleInputs ==
    { <<ResA, ResA, ResA>>, <<ResA, ResB, LitA>>,
      <<BNodeA, ResA, LitA>>, <<BNodeA, ResB, ResA>> }

\* A pattern position is a concrete term or nil.
PatS == {ResA, BNodeA, Nil}
PatP == {ResA, ResB, Nil}
PatO == {ResA, LitA, Nil}

(***************************************************************************)
(* The graph store (graph.go).                                             *)
(***************************************************************************)
Allocated == 1..Len(heap)

\* (g *Graph) Len()
GraphLen == Cardinality(triples)

\* The orders in which `for triple := range g.triples` can deliver the keys
\* of the map: Go leaves the order of a map iteration unspecified.
Orders(S) ==
    {f \in [1..Cardinality(S) -> S] : \A i, j \in 1..Cardinality(S) : f[i] = f[j] => i = j}

\* A test that compares every concrete position of the pattern.
OneMatchPositionwise(triple, s, p, o) ==
    /\ (s # Nil => Equal(triple.Subject, s))
    /\ (p # Nil => Equal(triple.Predicate, p))
    /\ (o # Nil => Equal(triple.Object, o))

\* The test One applies to each triple it receives: the nested ifs of
\* graph.go:138-170.
OneMatch(triple, s, p, o) ==
    IF s # Nil
    THEN IF p # Nil
         THEN IF o # Nil
              THEN Equal(triple.Subject, s) /\ Equal(triple.Predicate, p)
                                            /\ Equal(triple.Object, o)
              ELSE Equal(triple.Subject, s) /\ Equal(triple.Predicate, p)
         ELSE Equal(triple.Subject, s)
    ELSE IF p # Nil
         THEN IF o # Nil
              THEN Equal(triple.Predicate, p) /\ Equal(triple.Object, o)
              ELSE Equal(triple.Predicate, p)
         ELSE IF o # Nil
              THEN Equal(triple.Object, o)
              ELSE TRUE

\* AllMatch given One's final branch: three nil positions match anything.
AllMatchWildcard(triple, s, p, o) == OneMatch(triple, s, p, o)

\* The test All applies to each triple it receives: the nested ifs of
\* graph.go:206-236, which have no branch for three nil positions.
AllMatch(triple, s, p, o) ==
    IF s # Nil
    THEN IF p # Nil
         THEN IF o # Nil
              THEN Equal(triple.Subject, s) /\ Equal(triple.Predicate, p)
                                            /\ Equal(triple.Object, o)
              ELSE Equal(triple.Subject, s) /\ Equal(triple.Predicate, p)
         ELSE Equal(triple.Subject, s)
    ELSE IF p # Nil
         THEN IF o # Nil
              THEN Equal(triple.Predicate, p) /\ Equal(triple.Object, o)
              ELSE Equal(triple.Predicate, p)
         ELSE IF o # Nil
              THEN Equal(triple.Object, o)
              ELSE FALSE

\* (g *Graph) One(s, p, o), when IterTriples delivers the triples in `order`:
\* the first triple that passes the test, or nil when the channel is drained.
RECURSIVE One(_, _, _, _)
One(order, s, p, o) ==
    IF order = <<>> THEN NilTriple
    ELSE IF OneMatch(heap[Head(order)], s, p, o) THEN Head(order)
    ELSE One(Tail(order), s, p, o)

\* (g *Graph) All(s, p, o), when IterTriples delivers the triples in `order`:
\* the slice of the triples that pass the test, in the order received.
RECURSIVE All(_, _, _, _)
All(order, s, p, o) ==
    IF order = <<>> THEN <<>>
    ELSE (IF AllMatch(heap[Head(order)], s, p, o) THEN <<Head(order)>> ELSE <<>>)
         \o All(Tail(order), s, p, o)

\* A store keyed by value: an insert is dropped when a stored triple has
\* Equal terms.
MapSetByValue(m, t) ==
    IF t \in 1..Len(heap) /\ \E u \in m : TripleEqual(heap[u], heap[t])
    THEN m ELSE m \cup {t}

\* g.triples[t] = true
MapSet(m, t) == m \cup {t}

\* A store keyed by value: a delete drops every stored triple with Equal
\* terms.
MapDeleteByValue(m, t) == {u \in m : ~TripleEqual(heap[u], heap[t])}

\* delete(g.triples, t)
MapDelete(m, t) == m \ {t}

(***************************************************************************)
(* Actions.  last records the call just made, its arguments, the triple    *)
(* set before it and what it returned.                                     *)
(***************************************************************************)
\* errors.New(text), text kept as the pieces it was concatenated from.
errorsNew(text) == [kind |-> "error", msg |-> text]

\* The slice expression s[:n] panics when n exceeds len(s).
SliceInRange(s, n) == n <= Len(s)

\* NewGraph(uri): a panic, or the graph and the error it returns.  The
\* graph of &Graph{} has a nil map, an empty uri and a nil term.
NewGraph(u) ==
    LET refused == [panic |-> FALSE,
                    err |-> errorsNew(<<"Non http graphs are not allowed">>),
                    graph |-> [triples |-> {}, uri |-> <<>>, term |-> Nil]]
        made == [panic |-> FALSE, err |-> Nil,
                 graph |-> [triples |-> {}, uri |-> u, term |-> NewResource(u)]]
        crash == [panic |-> TRUE, err |-> Nil,
                  graph |-> [triples |-> {}, uri |-> <<>>, term |-> Nil]]
    IN  IF ~SliceInRange(u, 5) THEN crash
        ELSE IF SubSeq(u, 1, 5) # <<"h", "t", "t", "p", ":">>
        THEN IF ~SliceInRange(u, 6) THEN crash
             ELSE IF SubSeq(u, 1, 6) # <<"h", "t", "t", "p", "s", ":">>
             THEN refused
             ELSE made
        ELSE made

\* g, err := NewGraph(testUri)
\* The goroutines that call the graph's methods.
Callers == {1, 2}

\* A caller that is in none of the methods that range over IterTriples.
Idle == [op |-> "idle", s |-> Nil, p |-> Nil, o |-> Nil, ch |-> 0,
         pre |-> {}, got |-> <<>>, triples |-> <<>>]

Init ==
    /\ heap = <<>>
    /\ triples = NewGraph(testUri).graph.triples
    /\ otherTriples = {}
    /\ g_uri = NewGraph(testUri).graph.uri
    /\ g_term = NewGraph(testUri).graph.term
    /\ last = [op |-> "NewGraph", uri |-> testUri, result |-> NewGraph(testUri)]
    /\ chans = <<>>
    /\ call = [k \in Callers |-> Idle]

\* The caller builds a triple without storing it: t := NewTriple(s, p, o).
NewTripleCall(s, p, o) ==
    /\ heap' = Append(heap, NewTriple(s, p, o))
    /\ last' = [op |-> "NewTriple", t |-> Len(heap) + 1, pre |-> triples]
    /\ UNCHANGED <<triples, otherTriples, g_uri, g_term, chans, call>>

\* (g *Graph) Add(t)
Add(t) ==
    /\ triples' = MapSet(triples, t)
    /\ last' = [op |-> "Add", t |-> t, pre |-> triples]
    /\ UNCHANGED <<heap, otherTriples, g_uri, g_term, chans, call>>

\* AddTriple that first looks the triple up by value (the commented-out
\* AddStatement of graph.go:241-248 does so).
AddTripleIfAbsent(s, p, o) ==
    /\ heap' = Append(heap, NewTriple(s, p, o))
    /\ triples' = IF \E u \in triples : TripleEqual(heap[u], NewTriple(s, p, o))
                  THEN triples ELSE triples \cup {Len(heap) + 1}
    /\ last' = [op |-> "AddTriple", t |-> Len(heap) + 1, pre |-> triples]
    /\ UNCHANGED <<otherTriples, g_uri, g_term, chans, call>>

\* (g *Graph) AddTriple(s, p, o)
AddTriple(s, p, o) ==
    /\ heap' = Append(heap, NewTriple(s, p, o))
    /\ triples' = MapSet(triples, Len(heap) + 1)
    /\ last' = [op |-> "AddTriple", t |-> Len(heap) + 1, pre |-> triples]
    /\ UNCHANGED <<otherTriples, g_uri, g_term, chans, call>>

\* (g *Graph) Remove(t)
Remove(t) ==
    /\ triples' = MapDelete(triples, t)
    /\ last' = [op |-> "Remove", t |-> t, pre |-> triples]
    /\ UNCHANGED <<heap, otherTriples, g_uri, g_term, chans, call>>

\* A call of g.One(s, p, o); order is the order in which this call's
\* IterTriples delivers the map's keys.
OneCall(order, s, p, o) ==
    /\ last' = [op |-> "One", s |-> s, p |-> p, o |-> o, pre |-> triples,
                preURI |-> g_uri, preTerm |-> g_term,
                result |-> One(order, s, p, o)]
    /\ UNCHANGED <<heap, triples, otherTriples, g_uri, g_term, chans, call>>

\* A call of g.All(s, p, o); order as for One.
AllCall(order, s, p, o) ==
    /\ last' = [op |-> "All", s |-> s, p |-> p, o |-> o, pre |-> triples,
                preURI |-> g_uri, preTerm |-> g_term,
                result |-> All(order, s, p, o)]
    /\ UNCHANGED <<heap, triples, otherTriples, g_uri, g_term, chans, call>>

\* (g *Graph) Merge(other): graph.go as given does not hold it; per the
\* specification it inserts every triple of other into the receiver under
\* the store's own policy and leaves other alone, i.e. it calls g.Add on
\* each triple other.IterTriples() delivers (in `order`).
RECURSIVE MergeLoop(_, _)
MergeLoop(m, order) ==
    IF order = <<>> THEN m
    ELSE MergeLoop(MapSet(m, Head(order)), Tail(order))

Merge(order) ==
    /\ triples' = MergeLoop(triples, order)
    /\ last' = [op |-> "Merge", pre |-> triples, preOther |-> otherTriples]
    /\ UNCHANGED <<heap, otherTriples, g_uri, g_term, chans, call>>

\* other.AddTriple(s, p, o), on the second graph.
OtherAddTriple(s, p, o) ==
    /\ heap' = Append(heap, NewTriple(s, p, o))
    /\ otherTriples' = MapSet(otherTriples, Len(heap) + 1)
    /\ last' = [op |-> "OtherAddTriple", t |-> Len(heap) + 1, pre |-> triples]
    /\ UNCHANGED <<triples, g_uri, g_term, chans, call>>

\* other.Add(t), on the second graph.
OtherAdd(t) ==
    /\ otherTriples' = MapSet(otherTriples, t)
    /\ last' = [op |-> "OtherAdd", t |-> t, pre |-> triples]
    /\ UNCHANGED <<heap, triples, g_uri, g_term, chans, call>>

\* The model allocates at most max triples in a behaviour.
CanAlloc(max) == Len(heap) < max

Next ==
    \/ \E c \in TripleInputs : CanAlloc(MaxAlloc) /\ NewTripleCall(c[1], c[2], c[3])
    \/ \E t \in Allocated : Add(t)
    \/ \E c \in TripleInputs : CanAlloc(MaxAlloc) /\ AddTriple(c[1], c[2], c[3])
    \/ \E t \in Allocated : Remove(t)
    \/ \E order \in Orders(triples) :
         \E s \in PatS, p \in PatP, o \in PatO : OneCall(order, s, p, o)
    \/ \E order \in Orders(triples) :
         \E s \in PatS, p \in PatP, o \in PatO : AllCall(order, s, p, o)

Spec == Init /\ [][Next]_vars

(***************************************************************************)
(* Two graphs and Merge.                                                   *)
(***************************************************************************)
NextMerge ==
    \/ \E c \in TripleInputs : CanAlloc(MaxMerge) /\ AddTriple(c[1], c[2], c[3])
    \/ \E c \in TripleInputs : CanAlloc(MaxMerge) /\ OtherAddTriple(c[1], c[2], c[3])
    \/ \E t \in Allocated : OtherAdd(t)
    \/ \E order \in Orders(otherTriples) : Merge(order)

SpecMerge == Init /\ [][NextMerge]_vars

(***************************************************************************)
(* The term model on its own: calls of Equal, Triple.Equal and String on   *)
(* terms drawn from bounded sets.                                          *)
(***************************************************************************)
BNodeB == NewBlankNode(<<"b">>)

\* The language tags a literal is given: none, bare, and with its '@'.
Languages == {<<>>, <<"e">>, <<"@", "e">>}

\* The arguments of Equal: every variant, literals with and without a
\* language and an IRI datatype, and the foreign implementation.
EqualTerms ==
    {ResA, ResB, BNodeA, BNodeB, fakeTerm(<<"a">>)}
    \cup {Literal(v, l, d) : v \in {<<"a">>, <<"b">>}, l \in {<<>>, <<"e">>},
                             d \in {Nil, ResA, ResB}}

\* The triples Triple.Equal is called on.
TermTriples ==
    {NewTriple(s, p, o) : s \in {ResA, ResB, BNodeA, BNodeB}, p \in {ResA, ResB},
                          o \in {ResA, ResB, LitA}}

\* The characters of a lexical value: the five that Literal.String escapes,
\* and two it does not.
ValueChars == {"a", "n", "\\", "\"", "\n", "\r", "\t"}

\* The literals String is called on.
StringLiterals ==
    {Literal(v, l, d) : v \in SeqsUpTo(ValueChars, MaxLen), l \in Languages,
                        d \in {Nil, ResA}}

\* r := a.Equal(b)
EqualCall(a, b) ==
    /\ last' = [op |-> "Equal", a |-> a, b |-> b, result |-> Equal(a, b)]
    /\ UNCHANGED <<heap, triples, otherTriples, g_uri, g_term, chans, call>>

\* r := t.Equal(u), on triples
TripleEqualCall(t, u) ==
    /\ last' = [op |-> "TripleEqual", t |-> t, u |-> u, result |-> TripleEqual(t, u)]
    /\ UNCHANGED <<heap, triples, otherTriples, g_uri, g_term, chans, call>>

\* r := t.String()
StringCall(t) ==
    /\ last' = [op |-> "String", t |-> t, result |-> String(t)]
    /\ UNCHANGED <<heap, triples, otherTriples, g_uri, g_term, chans, call>>

NextTerm ==
    \/ \E a \in EqualTerms, b \in EqualTerms : EqualCall(a, b)
    \/ \E t \in TermTriples, u \in TermTriples : TripleEqualCall(t, u)
    \/ \E t \in StringLiterals : StringCall(t)

SpecTerm == Init /\ [][NextTerm]_vars

(***************************************************************************)
(* The conversion layer (term.go:179-257).  gon3 (package rdf) and         *)
(* gojsonld (package jsonld) lie outside the repository: a term of theirs  *)
(* is taken to keep what its constructor was given, which is what          *)
(* graph_test.go:72-98 observes of them.                                   *)
(***************************************************************************)
\* rdf.NewIRI, rdf.NewBlankNode and the three literal constructors of gon3.
rdfNewIRI(iri) == [kind |-> "rdf.IRI", url |-> iri]

rdfNewBlankNode(id) == [kind |-> "rdf.BlankNode", Label |-> id]

rdfNewLiteral(value) ==
    [kind |-> "rdf.Literal", LexicalForm |-> value, LanguageTag |-> <<>>,
     DatatypeIRI |-> Nil]

rdfNewLiteralWithLanguage(value, language) ==
    [kind |-> "rdf.Literal", LexicalForm |-> value, LanguageTag |-> language,
     DatatypeIRI |-> Nil]

rdfNewLiteralWithDataType(value, iri) ==
    [kind |-> "rdf.Literal", LexicalForm |-> value, LanguageTag |-> <<>>,
     DatatypeIRI |-> iri]

\* (*rdf.IRI).String(), as rdf2term reads a literal's DatatypeIRI.
rdfString(t) == <<"<">> \o t.url \o <<">">>

\* RawValue() of a gon3 term.
rdfRawValue(t) ==
    CASE t.kind = "rdf.IRI" -> t.url
      [] t.kind = "rdf.BlankNode" -> t.Label
      [] t.kind = "rdf.Literal" -> t.LexicalForm

\* jsonld.NewResource, jsonld.NewBlankNode and the three literal
\* constructors of gojsonld.
jsonldNewResource(iri) == [kind |-> "jsonld.Resource", URI |-> iri]

jsonldNewBlankNode(id) == [kind |-> "jsonld.BlankNode", ID |-> id]

jsonldNewLiteral(value) ==
    [kind |-> "jsonld.Literal", Value |-> value, Language |-> <<>>,
     Datatype |-> Nil]

jsonldNewLiteralWithLanguage(value, language) ==
    [kind |-> "jsonld.Literal", Value |-> value, Language |-> language,
     Datatype |-> Nil]

jsonldNewLiteralWithDatatype(value, datatype) ==
    [kind |-> "jsonld.Literal", Value |-> value, Language |-> <<>>,
     Datatype |-> datatype]

\* (*jsonld.Resource).String(), as jterm2term reads a literal's Datatype.
jsonldString(t) == <<"<">> \o t.URI \o <<">">>

\* RawValue() of a gojsonld term.
jsonldRawValue(t) ==
    CASE t.kind = "jsonld.Resource" -> t.URI
      [] t.kind = "jsonld.BlankNode" -> t.ID
      [] t.kind = "jsonld.Literal" -> t.Value

\* debrack(s)
debrack(s) ==
    IF Len(s) < 2 THEN s
    ELSE IF s[1] # "<" THEN s
    ELSE IF s[Len(s)] # ">" THEN s
    ELSE SubSeq(s, 2, Len(s) - 1)

\* term2rdf(t), for literals whose datatype is a *Resource or nil.
term2rdf(t) ==
    CASE t.kind = "BlankNode" -> rdfNewBlankNode(RawValue(t))
      [] t.kind = "Resource" -> rdfNewIRI(RawValue(t))
      [] t.kind = "Literal" ->
            IF t.Datatype # Nil
            THEN rdfNewLiteralWithDataType(t.Value, rdfNewIRI(t.Datatype.URI))
            ELSE IF Len(t.Language) > 0
            THEN rdfNewLiteralWithLanguage(t.Value, t.Language)
            ELSE rdfNewLiteral(t.Value)
      [] OTHER -> Nil

\* rdf2term(term)
rdf2term(t) ==
    CASE t.kind = "rdf.BlankNode" -> NewBlankNode(rdfRawValue(t))
      [] t.kind = "rdf.Literal" ->
            IF Len(t.LanguageTag) > 0
            THEN NewLiteralWithLanguage(t.LexicalForm, t.LanguageTag)
            ELSE IF t.DatatypeIRI # Nil /\ Len(rdfString(t.DatatypeIRI)) > 0
            THEN NewLiteralWithDatatype(t.LexicalForm,
                     NewResource(debrack(rdfString(t.DatatypeIRI))))
            ELSE NewLiteral(rdfRawValue(t))
      [] t.kind = "rdf.IRI" -> NewResource(rdfRawValue(t))
      [] OTHER -> Nil

\* jterm2term without the language branch (the copy at graph.go:120-133
\* has none): a literal without a datatype comes back plain.
jterm2termNoLanguage(t) ==
    CASE t.kind = "jsonld.BlankNode" -> NewBlankNode(jsonldRawValue(t))
      [] t.kind = "jsonld.Literal" ->
            IF t.Datatype # Nil /\ Len(jsonldString(t.Datatype)) > 0
            THEN NewLiteralWithDatatype(t.Value,
                     NewResource(jsonldRawValue(t.Datatype)))
            ELSE NewLiteral(t.Value)
      [] t.kind = "jsonld.Resource" -> NewResource(jsonldRawValue(t))
      [] OTHER -> Nil

\* jterm2term(term)
jterm2term(t) ==
    CASE t.kind = "jsonld.BlankNode" -> NewBlankNode(jsonldRawValue(t))
      [] t.kind = "jsonld.Literal" ->
            IF Len(t.Language) > 0
            THEN NewLiteralWithLanguage(jsonldRawValue(t), t.Language)
            ELSE IF t.Datatype # Nil /\ Len(jsonldString(t.Datatype)) > 0
            THEN NewLiteralWithDatatype(t.Value,
                     NewResource(jsonldRawValue(t.Datatype)))
            ELSE NewLiteral(t.Value)
      [] t.kind = "jsonld.Resource" -> NewResource(jsonldRawValue(t))
      [] OTHER -> Nil

\* term2jterm(term)
term2jterm(t) ==
    CASE t.kind = "BlankNode" -> jsonldNewBlankNode(RawValue(t))
      [] t.kind = "Literal" ->
            IF Len(t.Language) > 0
            THEN jsonldNewLiteralWithLanguage(t.Value, t.Language)
            ELSE IF t.Datatype # Nil /\ Len(String(t.Datatype)) > 0
            THEN jsonldNewLiteralWithDatatype(t.Value,
                     jsonldNewResource(debrack(String(t.Datatype))))
            ELSE jsonldNewLiteral(t.Value)
      [] t.kind = "Resource" -> jsonldNewResource(RawValue(t))
      [] OTHER -> Nil

(***************************************************************************)
(* Parse, LoadURI and NewGraph (graph.go).                                 *)
(*                                                                         *)
(* A reader is described by the document it delivers: the syntax it is     *)
(* written in, whether it is well formed, and the triples it states, in    *)
(* the terms of the library that parses that syntax.  An error is a record *)
(* of kind "error"; the nil error is Nil.                                  *)
(***************************************************************************)
\* An error made by a library outside the repository.
ExternalError(from) == [kind |-> "error", from |-> from]

\* var mimeParser
mimeParser ==
    ("application/ld+json" :> "jsonld") @@
    ("application/json" :> "internal") @@
    ("application/sparql-update" :> "internal")

\* mimeParser[mime]: a missing key reads as the empty string.
MapGet(m, key) == IF key \in DOMAIN m THEN m[key] ELSE ""

\* The MIME types Parse is called with and responses are served as.
Mimes ==
    {"text/turtle", "text/plain", "application/ld+json", "application/json",
     "application/sparql-update"}

\* The two triples of simpleTurtle, as gon3 delivers them, and the same two
\* as gojsonld would.
simpleTurtle ==
    << <<rdfNewIRI(<<"a">>), rdfNewIRI(<<"b">>), rdfNewIRI(<<"a">>)>>,
       <<rdfNewIRI(<<"a">>), rdfNewIRI(<<"b">>), rdfNewLiteral(<<"a">>)>> >>

simpleJSONLD ==
    << <<jsonldNewResource(<<"a">>), jsonldNewResource(<<"b">>),
         jsonldNewResource(<<"a">>)>>,
       <<jsonldNewBlankNode(<<"a">>), jsonldNewResource(<<"b">>),
         jsonldNewLiteralWithLanguage(<<"a">>, <<"e">>)>> >>

Prefixes(s) == {SubSeq(s, 1, n) : n \in 0..Len(s)}

Readers ==
    {[syntax |-> "turtle", wellFormed |-> w, triples |-> ts] :
        w \in BOOLEAN, ts \in Prefixes(simpleTurtle)}
    \cup
    {[syntax |-> "jsonld", wellFormed |-> w, triples |-> ts] :
        w \in BOOLEAN, ts \in Prefixes(simpleJSONLD)}

\* rdf.NewParser(base).Parse(reader): the triples of a well-formed Turtle
\* document, otherwise an error and what was read before it.
rdfParse(reader) ==
    IF reader.syntax = "turtle" /\ reader.wellFormed
    THEN [err |-> Nil, triples |-> reader.triples]
    ELSE [err |-> ExternalError("rdf.Parse"),
          triples |-> IF reader.syntax = "turtle" THEN reader.triples ELSE <<>>]

\* jsonld.ReadJSON(bytes): the JSON value, or nil when the bytes are not
\* JSON.  Parse overwrites the error it returns.
jsonldReadJSON(reader) == IF reader.syntax = "jsonld" THEN reader ELSE Nil

\* What jsonld.ToRDF may answer for the nil a failed ReadJSON leaves: an
\* error, or an empty dataset.
NilAnswers ==
    {[err |-> ExternalError("jsonld.ToRDF"), triples |-> <<>>],
     [err |-> Nil, triples |-> <<>>]}

\* jsonld.ToRDF(jsonData, options)
jsonldToRDF(jsonData, nilAnswer) ==
    IF jsonData = Nil THEN nilAnswer
    ELSE IF jsonData.wellFormed THEN [err |-> Nil, triples |-> jsonData.triples]
    ELSE [err |-> ExternalError("jsonld.ToRDF"), triples |-> jsonData.triples]

\* The triples the loop of graph.go:267-269 adds: one AddTriple for each
\* triple of the dataset, its terms converted by jterm2term.
AddedFromJsonld(ts) ==
    [i \in 1..Len(ts) |->
        NewTriple(jterm2term(ts[i][1]), jterm2term(ts[i][2]), jterm2term(ts[i][3]))]

\* The triples the loop of graph.go:276-278 adds, converted by rdf2term.
AddedFromRdf(ts) ==
    [i \in 1..Len(ts) |->
        NewTriple(rdf2term(ts[i][1]), rdf2term(ts[i][2]), rdf2term(ts[i][3]))]

\* The "jsonld" branch adding the dataset before it looks at the error.
ParseJSONLDNoRollback(reader, nilAnswer) ==
    LET dataSet == jsonldToRDF(jsonldReadJSON(reader), nilAnswer)
    IN  [err |-> dataSet.err, add |-> AddedFromJsonld(dataSet.triples)]

\* The "jsonld" branch of Parse (graph.go:256-270): the error it returns
\* and the triples it adds.
ParseJSONLD(reader, nilAnswer) ==
    LET dataSet == jsonldToRDF(jsonldReadJSON(reader), nilAnswer)
    IN  IF dataSet.err # Nil
        THEN [err |-> dataSet.err, add |-> <<>>]
        ELSE [err |-> Nil, add |-> AddedFromJsonld(dataSet.triples)]

\* The "turtle" branch of Parse (graph.go:271-278).
ParseTurtle(reader) ==
    LET parser == rdfParse(reader)
    IN  IF parser.err # Nil
        THEN [err |-> parser.err, add |-> <<>>]
        ELSE [err |-> Nil, add |-> AddedFromRdf(parser.triples)]

\* (g *Graph) Parse(reader, mime): the error it returns and the triples it
\* adds, in order.
Parse(reader, mime, nilAnswer) ==
    LET looked == MapGet(mimeParser, mime)
        parserName == IF Len(looked) = 0 THEN "guess" ELSE looked
    IN  IF parserName = "jsonld" THEN ParseJSONLD(reader, nilAnswer)
        ELSE IF parserName = "turtle" THEN ParseTurtle(reader)
        ELSE [err |-> errorsNew(<<parserName, " is not supported by the parser">>),
              add |-> <<>>]

\* The triples AddTriple allocates for `add`, stored under MapSet.
RECURSIVE AddAll(_, _, _)
AddAll(m, n, k) == IF k = 0 THEN m ELSE AddAll(MapSet(m, n + 1), n + 1, k - 1)

ParseCall(reader, mime, nilAnswer) ==
    LET r == Parse(reader, mime, nilAnswer)
    IN  /\ heap' = heap \o r.add
        /\ triples' = AddAll(triples, Len(heap), Len(r.add))
        /\ last' = [op |-> "Parse", reader |-> reader, mime |-> mime,
                    pre |-> triples, err |-> r.err]
        /\ UNCHANGED <<otherTriples, g_uri, g_term, chans, call>>

\* strings.Split(s, sep) for a one-character sep.
RECURSIVE Split(_, _)
Split(s, sep) ==
    IF \A i \in 1..Len(s) : s[i] # sep THEN <<s>>
    ELSE LET i == CHOOSE k \in 1..Len(s) :
                      s[k] = sep /\ \A j \in 1..(k - 1) : s[j] # sep
         IN  <<SubSeq(s, 1, i - 1)>> \o Split(SubSeq(s, i + 1, Len(s)), sep)

\* defrag(s)
defrag(s) ==
    LET lst == Split(s, "#")
    IN  IF Len(lst) # 2 THEN s ELSE lst[1]

\* The URIs LoadURI is called with: testUri, with a fragment, with two.
LoadURIs ==
    {testUri, testUri \o <<"#", "m">>, testUri \o <<"#", "m", "#", "m">>}

\* What the HTTP exchange comes to: http.NewRequest fails, httpClient.Do
\* fails, or a response arrives with a status, a Content-Type and a body.
EmptyBody == [syntax |-> "turtle", wellFormed |-> TRUE, triples |-> <<>>]

StatusCodes == {200, 204, 404}

Responses ==
    {[stage |-> s, StatusCode |-> 0, ContentType |-> "", Body |-> EmptyBody] :
        s \in {"NewRequest", "Do"}}
    \cup
    {[stage |-> "Response", StatusCode |-> c, ContentType |-> m, Body |-> b] :
        c \in StatusCodes, m \in Mimes, b \in Readers}

\* A test for any 2xx status.
StatusSuccess(code) == code \in 200..299

\* r.StatusCode == 200
StatusOK(code) == code = 200

\* fmt.Errorf("Could not fetch graph from %s - HTTP %d", uri, r.StatusCode)
fmtErrorf(format, u, code) ==
    [kind |-> "error", format |-> format, uri |-> u, StatusCode |-> code]

\* (g *Graph) LoadURI(uri).  parsed lists the calls of Parse it made, each
\* with what Parse returned.
LoadURICall(u, resp, nilAnswer) ==
    LET doc == defrag(u)
        r == Parse(resp.Body, resp.ContentType, nilAnswer)
    IN  IF resp.stage = "NewRequest"
        THEN /\ last' = [op |-> "LoadURI", uri |-> u, doc |-> doc, resp |-> resp,
                         pre |-> triples, preURI |-> g_uri, parsed |-> <<>>,
                         err |-> ExternalError("http.NewRequest")]
             /\ UNCHANGED <<heap, triples, otherTriples, g_uri, g_term, chans, call>>
        ELSE /\ g_uri' = IF Len(g_uri) = 0 THEN doc ELSE g_uri
             /\ UNCHANGED <<otherTriples, g_term, chans, call>>
             /\ IF resp.stage = "Do"
                THEN /\ last' = [op |-> "LoadURI", uri |-> u, doc |-> doc, resp |-> resp,
                                 pre |-> triples, preURI |-> g_uri,
                                 parsed |-> <<>>,
                                 err |-> ExternalError("httpClient.Do")]
                     /\ UNCHANGED <<heap, triples>>
                ELSE IF StatusOK(resp.StatusCode)
                THEN /\ heap' = heap \o r.add
                     /\ triples' = AddAll(triples, Len(heap), Len(r.add))
                     /\ last' = [op |-> "LoadURI", uri |-> u, doc |-> doc, resp |-> resp,
                                 pre |-> triples, preURI |-> g_uri,
                                 parsed |-> <<[reader |-> resp.Body,
                                               mime |-> resp.ContentType,
                                               err |-> r.err]>>,
                                 err |-> Nil]
                ELSE /\ last' = [op |-> "LoadURI", uri |-> u, doc |-> doc, resp |-> resp,
                                 pre |-> triples, preURI |-> g_uri,
                                 parsed |-> <<>>,
                                 err |-> fmtErrorf("Could not fetch graph from %s - HTTP %d",
                                                   u, resp.StatusCode)]
                     /\ UNCHANGED <<heap, triples>>

\* g.uri = "", as TestGraphLoadURIFail sets it.
ClearURI ==
    /\ g_uri' = <<>>
    /\ last' = [op |-> "ClearURI"]
    /\ UNCHANGED <<heap, triples, otherTriples, g_term, chans, call>>

\* The strings NewGraph is called with: every prefix of testUri, of its
\* "http:" twin and of the "ssh://t" of TestNewGraphError, and "a".
GraphURIs ==
    Prefixes(testUri) \cup Prefixes(<<"h", "t", "t", "p", ":", "/", "/", "e">>)
    \cup Prefixes(<<"s", "s", "h", ":", "/", "/", "t">>) \cup {<<"a">>}

\* A caller makes another graph: g2, err := NewGraph(u).  The graph under
\* observation stays as it is.
NewGraphCall(u) ==
    /\ last' = [op |-> "NewGraph", uri |-> u, result |-> NewGraph(u)]
    /\ UNCHANGED <<heap, triples, otherTriples, g_uri, g_term, chans, call>>

\* What the file system answers for one file name: the outcome of os.Stat
\* ("notExist": the error os.IsNotExist recognises; "error": any other
\* error, e.g. permission denied on a parent directory; "dir" and "file":
\* success), the outcome of os.OpenFile, and what reading the file yields.
Files ==
    {[stat |-> s, open |-> "error", content |-> CHOOSE r \in Readers : r.triples = <<>> /\ r.wellFormed /\ r.syntax = "turtle"] :
        s \in {"notExist", "error", "dir", "file"}}
    \cup
    {[stat |-> "file", open |-> "ok", content |-> r] : r \in Readers}

\* os.Stat(filename): a FileInfo and an error; the FileInfo is nil whenever
\* the error is not.
osStat(file) ==
    CASE file.stat = "notExist" -> [info |-> Nil, err |-> ExternalError("ErrNotExist")]
      [] file.stat = "error"    -> [info |-> Nil, err |-> ExternalError("os.Stat")]
      [] file.stat = "dir"      -> [info |-> [kind |-> "FileInfo", IsDir |-> TRUE], err |-> Nil]
      [] file.stat = "file"     -> [info |-> [kind |-> "FileInfo", IsDir |-> FALSE], err |-> Nil]

\* os.IsNotExist(err)
osIsNotExist(err) == err = ExternalError("ErrNotExist")

\* (g *Graph) ReadFile(filename): the triples it adds, or a panic. Calling
\* IsDir on the nil FileInfo of a failed Stat is a nil dereference; Close
\* on the nil *os.File of a failed OpenFile only returns an error.
ReadFile(file, nilAnswer) ==
    LET st == osStat(file)
    IN  IF osIsNotExist(st.err) THEN [panic |-> FALSE, add |-> <<>>]
        ELSE IF st.info = Nil THEN [panic |-> TRUE, add |-> <<>>]
        ELSE IF st.info.IsDir THEN [panic |-> FALSE, add |-> <<>>]
        ELSE IF ~st.info.IsDir /\ st.err # Nil THEN [panic |-> FALSE, add |-> <<>>]
        ELSE IF file.open # "ok" THEN [panic |-> FALSE, add |-> <<>>]
        ELSE [panic |-> FALSE,
              add |-> Parse(file.content, "text/turtle", nilAnswer).add]

ReadFileCall(file, nilAnswer) ==
    LET r == ReadFile(file, nilAnswer)
    IN  /\ heap' = heap \o r.add
        /\ triples' = AddAll(triples, Len(heap), Len(r.add))
        /\ last' = [op |-> "ReadFile", file |-> file, pre |-> triples,
                    panic |-> r.panic]
        /\ UNCHANGED <<otherTriples, g_uri, g_term, chans, call>>

NextIO ==
    \/ \E reader \in Readers, mime \in Mimes, nilAnswer \in NilAnswers :
          /\ Len(heap) + Len(reader.triples) <= MaxParse
          /\ ParseCall(reader, mime, nilAnswer)
    \/ \E u \in LoadURIs, resp \in Responses, nilAnswer \in NilAnswers :
          /\ Len(heap) + Len(resp.Body.triples) <= MaxParse
          /\ LoadURICall(u, resp, nilAnswer)
    \/ \E file \in Files, nilAnswer \in NilAnswers :
          /\ Len(heap) + Len(file.content.triples) <= MaxParse
          /\ ReadFileCall(file, nilAnswer)
    \/ ClearURI
    \/ \E u \in GraphURIs : NewGraphCall(u)

SpecIO == Init /\ [][NextIO]_vars

(***************************************************************************)
(* Serialize (graph.go:348-437).  The writer is a bytes.Buffer, as in the  *)
(* tests: no write fails, and the text written is a sequence of            *)
(* characters.                                                             *)
(***************************************************************************)
ResC == NewResource(<<"c">>)

\* The triples the serializer specification stores: IRIs in every position,
\* literals with a language and with a datatype, a blank node as subject
\* and as object.
SerializeInputs ==
    { <<ResA, ResB, ResC>>,
      <<ResA, ResB, NewLiteralWithLanguage(<<"a">>, <<"e">>)>>,
      <<ResA, ResC, NewLiteralWithDatatype(<<"%">>, ResB)>>,
      <<BNodeA, ResB, ResC>>,
      <<ResC, ResB, BNodeA>> }

\* The mime arguments of Serialize.
SerializeMimes == {"text/turtle", "application/ld+json", "text/html", ""}

\* encodeTerm(iterm)
encodeTerm(t) ==
    CASE t.kind = "Resource" -> <<"<">> \o t.URI \o <<">">>
      [] t.kind = "Literal" -> String(t)
      [] t.kind = "BlankNode" -> String(t)
      [] OTHER -> <<>>

\* The concatenation of a sequence of strings, halving the sequence.
RECURSIVE Concat(_)
Concat(ss) ==
    IF Len(ss) = 0 THEN <<>>
    ELSE IF Len(ss) = 1 THEN ss[1]
    ELSE Concat(SubSeq(ss, 1, Len(ss) \div 2))
         \o Concat(SubSeq(ss, Len(ss) \div 2 + 1, Len(ss)))

\* A grouping that assigns instead of appending: each subject keeps only
\* the triple delivered last.
TriplesBySubjectLast(order, s) ==
    LET ts == SelectSeq(order, LAMBDA t : encodeTerm(heap[t].Subject) = s)
    IN  IF ts = <<>> THEN ts ELSE <<ts[Len(ts)]>>

\* triplesBySubject[s], for the triples delivered in `order`.
TriplesBySubject(order, s) ==
    SelectSeq(order, LAMBDA t : encodeTerm(heap[t].Subject) = s)

\* The keys of triplesBySubject.
Subjects(order) == {encodeTerm(heap[order[i]].Subject) : i \in DOMAIN order}

\* fmt.Fprintf(w, "  %s %s ;\n", p, o)
TurtleLine(t) ==
    <<" ", " ">> \o encodeTerm(heap[t].Predicate) \o <<" ">>
    \o encodeTerm(heap[t].Object) \o <<" ", ";", "\n">>

\* One turn of the loop over triplesBySubject (graph.go:363-383).
TurtleBlock(order, s) ==
    LET ts == TriplesBySubject(order, s)
    IN  s \o <<"\n">> \o Concat([i \in DOMAIN ts |-> TurtleLine(ts[i])])
        \o <<" ", " ", ".", "\n", "\n">>

\* (g *Graph) serializeTurtle(w), when IterTriples delivers the triples in
\* `order` and the map of subjects is ranged over in `subjectOrder`.
serializeTurtle(order, subjectOrder) ==
    [panic |-> FALSE, err |-> Nil,
     out |-> <<"\n">> \o Concat([i \in DOMAIN subjectOrder |->
                                    TurtleBlock(order, subjectOrder[i])])]

\* The characters of the model in ascending byte order, for the order in
\* which encoding/json writes the keys of a map.
ByteOrder ==
    <<"\n", "\"", "%", "&", "(", ")", ":", "<", ">", "@", "\\", "_",
      "a", "b", "c", "d", "e", "g", "i", "l", "n", "p", "t", "u", "v", "y">>

ByteRank(c) == CHOOSE i \in DOMAIN ByteOrder : ByteOrder[i] = c

RECURSIVE StringLess(_, _)
StringLess(a, b) ==
    IF b = <<>> THEN FALSE
    ELSE IF a = <<>> THEN TRUE
    ELSE IF Head(a) = Head(b) THEN StringLess(Tail(a), Tail(b))
    ELSE ByteRank(Head(a)) < ByteRank(Head(b))

\* encoding/json on a string: quoted, with the quote, the backslash and the
\* newline escaped and <, > and & written as <, > and &.
jsonEscape(c) ==
    CASE c = "\"" -> <<"\\", "\"">>
      [] c = "\\" -> <<"\\", "\\">>
      [] c = "\n" -> <<"\\", "n">>
      [] c = "<" -> <<"\\", "u", "0", "0", "3", "c">>
      [] c = ">" -> <<"\\", "u", "0", "0", "3", "e">>
      [] c = "&" -> <<"\\", "u", "0", "0", "2", "6">>
      [] OTHER -> <<c>>

jsonString(s) ==
    <<"\"">> \o Concat([i \in DOMAIN s |-> jsonEscape(s[i])]) \o <<"\"">>

\* strings joined by commas.
RECURSIVE JoinComma(_)
JoinComma(ss) ==
    IF ss = <<>> THEN <<>>
    ELSE IF Len(ss) = 1 THEN Head(ss)
    ELSE Head(ss) \o <<",">> \o JoinComma(Tail(ss))

\* encoding/json on a map whose values are already encoded: the keys in
\* ascending order.
jsonMap(m) ==
    LET keys == CHOOSE f \in Orders(DOMAIN m) :
                    \A i, j \in DOMAIN f : i < j => StringLess(f[i], f[j])
    IN  <<"{">> \o JoinComma([i \in DOMAIN keys |->
                                 jsonString(keys[i]) \o <<":">> \o m[keys[i]]])
        \o <<"}">>

\* encoding/json on a slice whose elements are already encoded.
jsonSlice(elems) == <<"[">> \o JoinComma(elems) \o <<"]">>

AtId == <<"@", "i", "d">>
AtValue == <<"@", "v", "a", "l", "u", "e">>
AtType == <<"@", "t", "y", "p", "e">>
AtLanguage == <<"@", "l", "a", "n", "g", "u", "a", "g", "e">>

\* The map v built for a literal object (graph.go:403-411), encoded.
JSONLdLiteral(t) ==
    LET withType == t.Datatype # Nil /\ Len(String(t.Datatype)) > 0
        withLanguage == Len(t.Language) > 0
        keys == {AtValue} \cup (IF withType THEN {AtType} ELSE {})
                          \cup (IF withLanguage THEN {AtLanguage} ELSE {})
    IN  jsonMap([k \in keys |->
                    IF k = AtValue THEN jsonString(t.Value)
                    ELSE IF k = AtType THEN jsonString(String(t.Datatype))
                    ELSE jsonString(t.Language)])

\* The map `one` built for a triple (graph.go:391-413), encoded: the
\* predicate key is set for a *Resource and for a *Literal object only.
JSONLdOne(elt) ==
    LET value == IF elt.Object.kind = "Resource"
                 THEN jsonSlice(<<jsonMap([k \in {AtId} |-> jsonString(elt.Object.URI)])>>)
                 ELSE jsonSlice(<<JSONLdLiteral(elt.Object)>>)
        keys == IF elt.Object.kind \in {"Resource", "Literal"}
                THEN {AtId, elt.Predicate.URI} ELSE {AtId}
    IN  jsonMap([k \in keys |->
                    IF k = elt.Predicate.URI /\ elt.Object.kind \in {"Resource", "Literal"}
                    THEN value ELSE jsonString(elt.Subject.URI)])

\* The type assertions of graph.go:392, 396 and 412 panic on a term that is
\* not a *Resource.
JSONLdPanics(elt) ==
    \/ elt.Subject.kind # "Resource"
    \/ elt.Object.kind \in {"Resource", "Literal"} /\ elt.Predicate.kind # "Resource"

\* The "%" at position i of a format opens a directive when an even number
\* of "%" lead up to it; the character after it is the directive's verb.
RECURSIVE PercentsBefore(_, _)
PercentsBefore(format, i) ==
    IF i > 1 /\ format[i - 1] = "%" THEN 1 + PercentsBefore(format, i - 1) ELSE 0

OpensDirective(format, i) ==
    format[i] = "%" /\ PercentsBefore(format, i) % 2 = 0

\* fmt.Fprintf(w, format) without operands, for verbs that are neither
\* flags nor digits: "%%" writes "%", "%" and a verb x writes
\* "%!x(MISSING)", a final "%" writes "%!(NOVERB)".
Fprintf(format) ==
    Concat([i \in DOMAIN format |->
               IF OpensDirective(format, i)
               THEN IF i = Len(format)
                    THEN <<"%", "!", "(", "N", "O", "V", "E", "R", "B", ")">>
                    ELSE IF format[i + 1] = "%" THEN <<"%">>
                    ELSE <<"%", "!", format[i + 1],
                           "(", "M", "I", "S", "S", "I", "N", "G", ")">>
               ELSE IF i > 1 /\ OpensDirective(format, i - 1) THEN <<>>
               ELSE <<format[i]>>])

\* (g *Graph) serializeJSONLd(w), when IterTriples delivers the triples in
\* `order`: a panic before anything is written, or the encoded slice.
serializeJSONLd(order) ==
    IF \E i \in DOMAIN order : JSONLdPanics(heap[order[i]])
    THEN [panic |-> TRUE, err |-> Nil, out |-> <<>>]
    ELSE [panic |-> FALSE, err |-> Nil,
          out |-> Fprintf(jsonSlice([i \in DOMAIN order |-> JSONLdOne(heap[order[i]])]))]

\* var mimeSerializer
mimeSerializer ==
    ("application/ld+json" :> "internal") @@
    ("text/html" :> "internal")

\* A Serialize that lets the serializer table choose the renderer.
SerializeByTable(mime, order, subjectOrder) ==
    IF MapGet(mimeSerializer, mime) = "internal"
    THEN [renderer |-> "serializeJSONLd"] @@ serializeJSONLd(order)
    ELSE [renderer |-> "serializeTurtle"] @@ serializeTurtle(order, subjectOrder)

\* (g *Graph) Serialize(w, mime): the result of the renderer it calls, and
\* which renderer that is. serializerName is computed and not used.
Serialize(mime, order, subjectOrder) ==
    LET looked == MapGet(mimeSerializer, mime)
        serializerName == IF Len(looked) = 0 THEN "turtle" ELSE looked
    IN  IF mime = "application/ld+json"
        THEN [renderer |-> "serializeJSONLd"] @@ serializeJSONLd(order)
        ELSE [renderer |-> "serializeTurtle"] @@ serializeTurtle(order, subjectOrder)

SerializeCall(mime, order, subjectOrder) ==
    LET r == Serialize(mime, order, subjectOrder)
    IN  /\ last' = [op |-> "Serialize", mime |-> mime, pre |-> triples,
                    renderer |-> r.renderer,
                    panic |-> r.panic, err |-> r.err, out |-> r.out]
        /\ UNCHANGED <<heap, triples, otherTriples, g_uri, g_term, chans, call>>

NextSerialize ==
    \/ \E c \in SerializeInputs : CanAlloc(MaxSerialize) /\ AddTriple(c[1], c[2], c[3])
    \/ \E mime \in SerializeMimes : \E order \in Orders(triples) :
          \E subjectOrder \in Orders(Subjects(order)) :
              SerializeCall(mime, order, subjectOrder)

SpecSerialize == Init /\ [][NextSerialize]_vars

(***************************************************************************)
(* The conversion layer on its own: round trips of core terms through the  *)
(* terms of each library.                                                  *)
(***************************************************************************)
\* IRIs, blank-node ids and lexical values: strings over two letters.
ConvertStrings == SeqsUpTo({"a", "b"}, MaxConvert)

ConvertIRIs == {NewResource(u) : u \in ConvertStrings \ {<<>>}}

\* The core terms converted: every IRI and blank node, and every literal
\* over the values, the languages and the datatypes (or none).
ConvertTerms ==
    ConvertIRIs
    \cup {NewBlankNode(id) : id \in ConvertStrings \ {<<>>}}
    \cup {Literal(v, l, d) : v \in ConvertStrings, l \in Languages,
                             d \in {Nil} \cup ConvertIRIs}

\* back := rdf2term(term2rdf(t)); r := back.Equal(t)
RoundTripRdfCall(t) ==
    /\ last' = [op |-> "rdf2term(term2rdf)", t |-> t,
                back |-> rdf2term(term2rdf(t)),
                result |-> Equal(rdf2term(term2rdf(t)), t)]
    /\ UNCHANGED <<heap, triples, otherTriples, g_uri, g_term, chans, call>>

\* back := jterm2term(term2jterm(t)); r := back.Equal(t)
RoundTripJsonldCall(t) ==
    /\ last' = [op |-> "jterm2term(term2jterm)", t |-> t,
                back |-> jterm2term(term2jterm(t)),
                result |-> Equal(jterm2term(term2jterm(t)), t)]
    /\ UNCHANGED <<heap, triples, otherTriples, g_uri, g_term, chans, call>>

NextConvert ==
    \/ \E t \in ConvertTerms : RoundTripRdfCall(t)
    \/ \E t \in ConvertTerms : RoundTripJsonldCall(t)

SpecConvert == Init /\ [][NextConvert]_vars

(***************************************************************************)
(* IterTriples at the level of goroutines (graph.go:176-185): the channel  *)
(* it makes, the goroutine that ranges over g.triples and sends on it, and *)
(* the loops of One, All, serializeTurtle and serializeJSONLd that receive *)
(* from it.                                                                *)
(***************************************************************************)
\* The triples, the pattern and the operations of this specification.
IterInputs == {<<ResA, ResB, ResC>>, <<BNodeA, ResB, ResC>>}

IterPatterns == {<<ResA, Nil, Nil>>}

IterOps == {"One", "All", "serializeTurtle", "serializeJSONLd"}

\* A caller of a program the runtime has aborted.
Fatal == [op |-> "fatal", s |-> Nil, p |-> Nil, o |-> Nil, ch |-> 0,
          pre |-> {}, got |-> <<>>, triples |-> <<>>]

Dead == \E k \in Callers : call[k].op = "fatal"

\* g.IterTriples(): the channel made by make(chan *Triple), which has no
\* buffer, and its goroutine. order is the order in which the goroutine's
\* range delivers the keys of g.triples, sent the number of sends that have
\* completed, pc the goroutine's position: "range" (taking the next key or
\* finding none), "send" (at ch <- triple), "done" (close(ch) executed and
\* the goroutine ended). op names the method that ranges over the channel;
\* raced tells that the map was written while the goroutine could still
\* read it.
IterTriples(order, op) ==
    [order |-> order, sent |-> 0, pc |-> "range", op |-> op, raced |-> FALSE]

\* The channel has a goroutine waiting to receive from it: the method that
\* called IterTriples has not returned.
HasReceiver(c) == \E k \in Callers : call[k].op \in IterOps /\ call[k].ch = c

Receiver(c) == CHOOSE k \in Callers : call[k].op \in IterOps /\ call[k].ch = c

\* `for ... := range g.IterTriples()` in One, All, serializeTurtle and
\* serializeJSONLd: caller k enters the method, which calls IterTriples and
\* waits to receive.
Begin(k, op, order, s, p, o) ==
    /\ ~Dead
    /\ call[k].op = "idle"
    /\ chans' = Append(chans, IterTriples(order, op))
    /\ call' = [call EXCEPT ![k] = [op |-> op, s |-> s, p |-> p, o |-> o,
                                    ch |-> Len(chans) + 1, pre |-> triples,
                                    got |-> <<>>, triples |-> <<>>]]
    /\ UNCHANGED <<heap, triples, otherTriples, g_uri, g_term, last>>

\* A range that ends at any of its evaluations.
RangeDoneEarly(c) == TRUE

\* The goroutine's range over g.triples has delivered every key.
RangeDone(c) == chans[c].sent = Len(chans[c].order)

\* The goroutine evaluates its range clause: it takes the next key and goes
\* to the send, or finds none, executes close(ch) and ends.
ProducerRange(c) ==
    /\ ~Dead
    /\ chans[c].pc = "range"
    /\ chans' = [chans EXCEPT ![c].pc = IF RangeDone(c) THEN "done" ELSE "send"]
    /\ UNCHANGED <<heap, triples, otherTriples, g_uri, g_term, last, call>>

\* A send that completes whether or not a goroutine receives.
SendNeverBlocks(c) == chans[c].pc = "send"

\* ch <- triple on the unbuffered channel can complete: a goroutine is
\* receiving.
SendEnabled(c) == chans[c].pc = "send" /\ HasReceiver(c)

\* The record of a call that has returned.
Returned(k, drained, panic, result) ==
    [op |-> call[k].op, caller |-> k, s |-> call[k].s, p |-> call[k].p,
     o |-> call[k].o, ch |-> call[k].ch, pre |-> call[k].pre,
     got |-> call[k].got, drained |-> drained, panic |-> panic,
     result |-> result]

\* The body of the receiving loop, run by caller k on the triple t it has
\* received: One returns t when it passes the test, All appends it to
\* its slice when it passes the test, serializeTurtle files it under its
\* subject, serializeJSONLd builds its object or panics on a failed type
\* assertion.
LoopBody(k, t) ==
    LET c == call[k]
        received == [c EXCEPT !.got = Append(c.got, t)]
    IN  IF c.op = "One" /\ OneMatch(heap[t], c.s, c.p, c.o)
        THEN /\ call' = [call EXCEPT ![k] = Idle]
             /\ last' = [Returned(k, FALSE, FALSE, t) EXCEPT !.got = received.got]
        ELSE IF c.op = "serializeJSONLd" /\ JSONLdPanics(heap[t])
        THEN /\ call' = [call EXCEPT ![k] = Idle]
             /\ last' = [Returned(k, FALSE, TRUE, <<>>) EXCEPT !.got = received.got]
        ELSE IF c.op = "All" /\ AllMatch(heap[t], c.s, c.p, c.o)
        THEN /\ call' = [call EXCEPT ![k] = [received EXCEPT !.triples = Append(c.triples, t)]]
             /\ UNCHANGED last
        ELSE /\ call' = [call EXCEPT ![k] = received]
             /\ UNCHANGED last

\* The send of the goroutine of channel c meets the receive of the method
\* that ranges over c; the goroutine goes back to its range clause, the
\* method runs its loop body.
Send(c) ==
    /\ ~Dead
    /\ SendEnabled(c)
    /\ chans' = [chans EXCEPT ![c].sent = @ + 1, ![c].pc = "range"]
    /\ IF HasReceiver(c)
       THEN LoopBody(Receiver(c), chans[c].order[chans[c].sent + 1])
       ELSE UNCHANGED <<call, last>>
    /\ UNCHANGED <<heap, triples, otherTriples, g_uri, g_term>>

\* The receive of caller k finds its channel closed: the loop ends and the
\* method returns. One returns nil, All its slice, the serializers write
\* what they have collected (serializeTurtle ranges over its map of
\* subjects in subjectOrder).
RangeEnd(k) ==
    LET c == call[k]
    IN  /\ ~Dead
        /\ c.op \in IterOps
        /\ chans[c.ch].pc = "done"
        /\ \E subjectOrder \in Orders(Subjects(c.got)) :
              last' = Returned(k, TRUE, FALSE,
                         CASE c.op = "One" -> NilTriple
                           [] c.op = "All" -> c.triples
                           [] c.op = "serializeTurtle" ->
                                 serializeTurtle(c.got, subjectOrder).out
                           [] c.op = "serializeJSONLd" ->
                                 serializeJSONLd(c.got).out)
        /\ call' = [call EXCEPT ![k] = Idle]
        /\ UNCHANGED <<heap, triples, otherTriples, g_uri, g_term, chans>>

\* The goroutine of channel c can still read g.triples: it is at its range
\* clause, or at a send that a receiver will let complete.
ReadsMap(c) ==
    \/ chans[c].pc = "range"
    \/ chans[c].pc = "send" /\ HasReceiver(c)

\* order with t put in at position pos.
InsertAt(order, pos, t) ==
    SubSeq(order, 1, pos - 1) \o <<t>> \o SubSeq(order, pos, Len(order))

\* The positions at which the range of channel c can come to a key added
\* now: behind the keys it has taken.
Behind(c) ==
    LET taken == chans[c].sent + (IF chans[c].pc = "send" THEN 1 ELSE 0)
    IN  (taken + 1)..(Len(chans[c].order) + 1)

\* g.AddTriple(s, p, o) by an idle caller while goroutines of IterTriples
\* can still read the map: a data race. For each such goroutine the range
\* either misses the new key (pick 0) or comes to it at a later position
\* (pick > 0).
AddTripleRace(s, p, o, pick) ==
    /\ ~Dead
    /\ \E k \in Callers : call[k].op = "idle"
    /\ \E c \in DOMAIN chans : ReadsMap(c)
    /\ \A c \in DOMAIN chans :
          IF ReadsMap(c) THEN pick[c] = 0 \/ pick[c] \in Behind(c)
          ELSE pick[c] = 0
    /\ heap' = Append(heap, NewTriple(s, p, o))
    /\ triples' = MapSet(triples, Len(heap) + 1)
    /\ chans' = [c \in DOMAIN chans |->
                    IF ReadsMap(c)
                    THEN [chans[c] EXCEPT
                             !.raced = TRUE,
                             !.order = IF pick[c] = 0 THEN @
                                       ELSE InsertAt(@, pick[c], Len(heap) + 1)]
                    ELSE chans[c]]
    /\ last' = [op |-> "AddTriple", t |-> Len(heap) + 1, pre |-> triples]
    /\ UNCHANGED <<otherTriples, g_uri, g_term, call>>

\* The same race detected by the runtime, which aborts the program
\* ("fatal error: concurrent map iteration and map write").
AddTripleFatal ==
    /\ ~Dead
    /\ \E k \in Callers : call[k].op = "idle"
    /\ \E c \in DOMAIN chans : ReadsMap(c)
    /\ call' = [k \in Callers |-> Fatal]
    /\ last' = [op |-> "fatal"]
    /\ UNCHANGED <<heap, triples, otherTriples, g_uri, g_term, chans>>

NextIter ==
    \/ \E c \in IterInputs :
          /\ CanAlloc(MaxIter)
          /\ ~Dead
          /\ \E k \in Callers : call[k].op = "idle"
          /\ \A ch \in DOMAIN chans : ~ReadsMap(ch)
          /\ AddTriple(c[1], c[2], c[3])
    \/ \E c \in IterInputs : \E pick \in [DOMAIN chans -> 0..(MaxIter + 1)] :
          /\ CanAlloc(MaxIter)
          /\ AddTripleRace(c[1], c[2], c[3], pick)
    \/ CanAlloc(MaxIter) /\ AddTripleFatal
    \/ \E k \in Callers, op \in {"One", "All"}, pat \in IterPatterns :
          \E order \in Orders(triples) :
             /\ Len(chans) < MaxChans
             /\ Begin(k, op, order, pat[1], pat[2], pat[3])
    \/ \E k \in Callers, op \in {"serializeTurtle", "serializeJSONLd"} :
          \E order \in Orders(triples) :
             /\ Len(chans) < MaxChans
             /\ Begin(k, op, order, Nil, Nil, Nil)
    \/ \E c \in DOMAIN chans : ProducerRange(c)
    \/ \E c \in DOMAIN chans : Send(c)
    \/ \E k \in Callers : RangeEnd(k)

SpecIter == Init /\ [][NextIter]_vars

\* Caller k returns from its method on finding its channel closed: the
\* step RangeEnd(k), without the value returned.
Returns(k) ==
    /\ ~Dead
    /\ call[k].op \in IterOps
    /\ chans[call[k].ch].pc = "done"
    /\ call' = [call EXCEPT ![k] = Idle]

\* The Go scheduler runs every goroutine that can run: the goroutine of a
\* channel takes its steps, a send that a receiver waits for completes, and
\* a receive on a closed channel returns.
FairIter ==
    /\ \A c \in 1..MaxChans : WF_vars(c \in DOMAIN chans /\ ProducerRange(c))
    /\ \A c \in 1..MaxChans : WF_vars(c \in DOMAIN chans /\ Send(c))
    /\ \A k \in Callers : WF_call(Returns(k))

SpecIterLive == Init /\ [][NextIter]_vars /\ FairIter

(***************************************************************************)
(* Properties of the store.                                                *)
(***************************************************************************)
\* A pattern position accepts a term: nil accepts anything, a concrete
\* term accepts the terms of the same variant with the same fields.
Accepts(pat, term) == pat = Nil \/ pat = term

\* The stored triples a pattern selects.
Selected(stored, s, p, o) ==
    {t \in stored : /\ Accepts(s, heap[t].Subject)
                    /\ Accepts(p, heap[t].Predicate)
                    /\ Accepts(o, heap[t].Object)}

Range(seq) == {seq[i] : i \in DOMAIN seq}

SomeConcrete(s, p, o) == s # Nil \/ p # Nil \/ o # Nil

\* C1: with at least one concrete position, All returns exactly the stored
\* entries whose terms equal the pattern at every concrete position, each
\* of them once and nothing else (the empty slice when none matches).
C1_AllReturnsExactlyTheMatches ==
    (last.op = "All" /\ SomeConcrete(last.s, last.p, last.o)) =>
        /\ Range(last.result) = Selected(last.pre, last.s, last.p, last.o)
        /\ Len(last.result) = Cardinality(Selected(last.pre, last.s, last.p, last.o))

\* C2: One returns nil exactly when no stored triple matches the pattern,
\* and otherwise a stored triple that matches; with three nil positions
\* every stored triple matches, so it returns nil only on the empty graph.
C2_OneNilIffNoMatch ==
    last.op = "One" =>
        /\ (last.result = NilTriple) <=>
               (Selected(last.pre, last.s, last.p, last.o) = {})
        /\ last.result # NilTriple =>
               last.result \in Selected(last.pre, last.s, last.p, last.o)

\* C3: All(nil, nil, nil) returns the empty slice whatever the graph
\* holds, while One(nil, nil, nil) on a non-empty graph returns one of its
\* triples.
C3_AllOfThreeWildcardsIsEmpty ==
    /\ (last.op = "All" /\ ~SomeConcrete(last.s, last.p, last.o)) =>
           last.result = <<>>
    /\ (last.op = "One" /\ ~SomeConcrete(last.s, last.p, last.o) /\ last.pre # {}) =>
           last.result \in last.pre

\* All(nil, nil, nil) was called on a graph that holds triples.
C3_Witness ==
    /\ last.op = "All"
    /\ ~SomeConcrete(last.s, last.p, last.o)
    /\ last.pre # {}

\* C4: membership is by allocation identity: AddTriple raises Len() by one
\* on every call, Add raises it by one for a triple object that is not
\* stored (value-equal to a stored one or not) and leaves it alone for an
\* object that is stored, and Remove lowers it by one exactly for a stored
\* object; so Len() counts the triple objects stored.
C4_LenCountsTripleObjects ==
    /\ last.op = "AddTriple" => GraphLen = Cardinality(last.pre) + 1
    /\ last.op = "Add" =>
           GraphLen = Cardinality(last.pre) + (IF last.t \in last.pre THEN 0 ELSE 1)
    /\ last.op = "Remove" =>
           GraphLen = Cardinality(last.pre) - (IF last.t \in last.pre THEN 1 ELSE 0)
    /\ last.op \in {"AddTriple", "Add"} => last.t \in triples

\* AddTriple was called with the terms of a triple that was already stored.
C4_Witness ==
    /\ last.op = "AddTriple"
    /\ \E u \in last.pre : heap[u] = heap[last.t]
    /\ GraphLen = 2

\* C5: Remove(t) deletes the entry that is the object t and no other; when
\* t is not stored, a value-equal stored triple notwithstanding, the store
\* is unchanged.
C5_RemoveDeletesByIdentity ==
    last.op = "Remove" =>
        /\ last.t \in last.pre =>
               triples = last.pre \ {last.t} /\ GraphLen = Cardinality(last.pre) - 1
        /\ last.t \notin last.pre => triples = last.pre

\* Remove was called with a triple that is not stored while a value-equal
\* one is.
C5_Witness ==
    /\ last.op = "Remove"
    /\ last.t \notin last.pre
    /\ \E u \in last.pre : heap[u] = heap[last.t]

\* C6: after g.Merge(h), g holds what it held and what h holds, so Len()
\* is the size of the union of the two sets of triple objects; One finds
\* every triple of either graph by its three terms, whatever the order of
\* iteration; h is unchanged.
C6_MergeIsIdentityUnion ==
    last.op = "Merge" =>
        /\ triples = last.pre \cup last.preOther
        /\ GraphLen = Cardinality(last.pre \cup last.preOther)
        /\ otherTriples = last.preOther
        /\ \A t \in last.pre \cup last.preOther : \A order \in Orders(triples) :
               One(order, heap[t].Subject, heap[t].Predicate, heap[t].Object)
                   # NilTriple

\* A graph of one triple was merged into a graph of two other triples, one
\* of them value-equal to the merged one.
C6_Witness ==
    /\ last.op = "Merge"
    /\ Cardinality(last.pre) = 2
    /\ Cardinality(last.preOther) = 1
    /\ last.pre \cap last.preOther = {}
    /\ \E t \in last.pre, u \in last.preOther : heap[t] = heap[u]
    /\ GraphLen = 3

(***************************************************************************)
(* Properties of the term model.                                           *)
(***************************************************************************)
\* One of the three variants the constructors produce.
IsVariant(t) == t.kind \in {"Resource", "Literal", "BlankNode"}

\* C7: on constructor-made terms Equal is reflexive and symmetric; between
\* terms of different variants, the foreign implementation included, it
\* returns false; every call returns a boolean.
C7_EqualReflexiveSymmetricPerVariant ==
    last.op = "Equal" =>
        /\ last.result \in BOOLEAN
        /\ (IsVariant(last.a) /\ last.a = last.b) => last.result
        /\ (IsVariant(last.a) /\ IsVariant(last.b)) =>
               last.result = Equal(last.b, last.a)
        /\ last.a.kind # last.b.kind => ~last.result

\* An IRI was compared with a blank node of the same text, and found
\* unequal.
C7_Witness ==
    /\ last.op = "Equal"
    /\ last.a.kind = "Resource" /\ last.b.kind = "BlankNode"
    /\ last.a.URI = last.b.ID
    /\ ~last.result

\* C8: two literals are Equal exactly when their values are the same, their
\* language tags are the same, and their datatypes are both absent or both
\* present and the same IRI; a literal without datatype never equals one
\* with a datatype.
C8_LiteralEqualIffAllThreeMatch ==
    (last.op = "Equal" /\ last.a.kind = "Literal" /\ last.b.kind = "Literal") =>
        last.result =
            (/\ last.a.Value = last.b.Value
             /\ last.a.Language = last.b.Language
             /\ \/ last.a.Datatype = Nil /\ last.b.Datatype = Nil
                \/ /\ last.a.Datatype # Nil /\ last.b.Datatype # Nil
                   /\ last.a.Datatype.URI = last.b.Datatype.URI)

\* NewLiteral(x) was compared with NewLiteralWithDatatype(x, d).
C8_Witness ==
    /\ last.op = "Equal"
    /\ last.a.kind = "Literal" /\ last.b.kind = "Literal"
    /\ last.a.Value = last.b.Value
    /\ last.a.Language = <<>> /\ last.b.Language = <<>>
    /\ last.a.Datatype = Nil /\ last.b.Datatype # Nil
    /\ ~last.result

\* C9: Triple.Equal is true exactly when the two subjects, the two
\* predicates and the two objects are the same terms, position by position.
C9_TripleEqualIsPositionwise ==
    last.op = "TripleEqual" =>
        last.result = (/\ last.t.Subject = last.u.Subject
                       /\ last.t.Predicate = last.u.Predicate
                       /\ last.t.Object = last.u.Object)

\* Two triples that differ by the exchange of two unequal terms between
\* subject and predicate were compared, and found unequal.
C9_Witness ==
    /\ last.op = "TripleEqual"
    /\ last.t.Subject = last.u.Predicate
    /\ last.t.Predicate = last.u.Subject
    /\ last.t.Subject # last.t.Predicate
    /\ last.t.Object = last.u.Object
    /\ ~last.result

\* The two-character escape of a character of a lexical value.
EscapeOf(c) ==
    CASE c = "\\" -> <<"\\", "\\">>
      [] c = "\"" -> <<"\\", "\"">>
      [] c = "\n" -> <<"\\", "n">>
      [] c = "\r" -> <<"\\", "r">>
      [] c = "\t" -> <<"\\", "t">>
      [] OTHER    -> <<c>>

\* A lexical value with each of its characters escaped once.
RECURSIVE Escaped(_)
Escaped(s) == IF s = <<>> THEN <<>> ELSE EscapeOf(Head(s)) \o Escaped(Tail(s))

C11_UnregisteredMimeParsesTurtle ==
    (/\ last.op = "Parse"
     /\ last.mime \in {"text/turtle", "text/plain"}
     /\ last.reader.syntax = "turtle" /\ last.reader.wellFormed)
    => /\ last.err = Nil
       /\ GraphLen = Cardinality(last.pre) + Len(last.reader.triples)

\* C12: Parse with a MIME type registered under a handler that is neither
\* JSON-LD nor Turtle returns an error whose message contains the MIME type
\* string the caller passed.
C12_UnsupportedErrorNamesMime ==
    (last.op = "Parse" /\ last.mime \in {"application/json", "application/sparql-update"})
    => /\ last.err # Nil
       /\ "msg" \in DOMAIN last.err
       /\ last.mime \in Range(last.err.msg)

\* C13: whenever Parse returns an error the graph holds exactly the triples
\* it held before the call, so Len() is unchanged (0 on an empty graph).
C13_ParseErrorLeavesGraph ==
    (last.op = "Parse" /\ last.err # Nil)
    => /\ triples = last.pre
       /\ GraphLen = Cardinality(last.pre)

\* Parse has failed on a JSON-LD document that states triples, in a graph
\* that already held some.
C13_Witness ==
    /\ last.op = "Parse" /\ last.err # Nil
    /\ last.mime = "application/ld+json"
    /\ last.reader.syntax = "jsonld" /\ Len(last.reader.triples) = 2
    /\ last.pre # {}

\* C14: on a response whose status is not 200 LoadURI returns an error that
\* carries the URI and the status, makes no call of Parse and leaves the
\* triples as they were; on a 200 it calls Parse exactly once, with the
\* response body and the response's Content-Type.
C14_LoadURIStatus ==
    (last.op = "LoadURI" /\ last.resp.stage = "Response")
    => IF last.resp.StatusCode # 200
       THEN /\ last.err # Nil
            /\ {"uri", "StatusCode"} \subseteq DOMAIN last.err
            /\ last.err.uri = last.uri
            /\ last.err.StatusCode = last.resp.StatusCode
            /\ last.parsed = <<>>
            /\ triples = last.pre
       ELSE /\ Len(last.parsed) = 1
            /\ last.parsed[1].reader = last.resp.Body
            /\ last.parsed[1].mime = last.resp.ContentType

\* LoadURI has met a 204 that carried a well-formed JSON-LD body, in a graph
\* that already held triples.
C14_Witness ==
    /\ last.op = "LoadURI" /\ last.resp.stage = "Response"
    /\ last.resp.StatusCode = 204
    /\ last.resp.ContentType = "application/ld+json"
    /\ last.resp.Body.syntax = "jsonld" /\ last.resp.Body.wellFormed
    /\ Len(last.resp.Body.triples) = 2
    /\ last.pre # {}

\* C15: when the response is a 200 and the Parse of its body fails, LoadURI
\* returns an error.
C15_LoadURIReportsParseFailure ==
    (/\ last.op = "LoadURI" /\ last.resp.stage = "Response"
     /\ last.resp.StatusCode = 200
     /\ \E i \in DOMAIN last.parsed : last.parsed[i].err # Nil)
    => last.err # Nil

\* p is a prefix of s.
IsPrefix(p, s) == Len(p) <= Len(s) /\ SubSeq(s, 1, Len(p)) = p

\* C16: for a uri that starts with neither "http:" nor "https:" NewGraph
\* returns (it does not crash) with an error and an empty graph; for a uri
\* that starts with one of them it returns no error and a graph with that
\* URI, no triples and the IRI term of the URI.
C16_NewGraphValidatesScheme ==
    last.op = "NewGraph" =>
        /\ ~last.result.panic
        /\ IF \/ IsPrefix(<<"h", "t", "t", "p", ":">>, last.uri)
              \/ IsPrefix(<<"h", "t", "t", "p", "s", ":">>, last.uri)
           THEN /\ last.result.err = Nil
                /\ last.result.graph.uri = last.uri
                /\ Cardinality(last.result.graph.triples) = 0
                /\ last.result.graph.term = [kind |-> "Resource", URI |-> last.uri]
           ELSE /\ last.result.err # Nil
                /\ Cardinality(last.result.graph.triples) = 0

(***************************************************************************)
(* Properties of Serialize.                                                *)
(***************************************************************************)
\* The graph holds one triple, and it is (<a>, <b>, <c>).
HoldsOnlyABC ==
    /\ Cardinality(triples) = 1
    /\ \A t \in triples : heap[t] = [Subject |-> [kind |-> "Resource", URI |-> <<"a">>],
                                     Predicate |-> [kind |-> "Resource", URI |-> <<"b">>],
                                     Object |-> [kind |-> "Resource", URI |-> <<"c">>]]

\* C17: Serialize with "text/turtle" of a graph that holds only
\* (<a>, <b>, <c>) writes exactly the subject on its own line and the one
\* predicate/object pair indented by two spaces and closed by a period:
\* "<a>\n  <b> <c> .".
C17_TurtleOfOneTriple ==
    (last.op = "Serialize" /\ last.mime = "text/turtle" /\ HoldsOnlyABC)
    => last.out = <<"<", "a", ">", "\n",
                    " ", " ", "<", "b", ">", " ", "<", "c", ">", " ", ".">>

\* C18: Serialize with "application/ld+json" of a graph that holds only
\* (<a>, <b>, <c>) writes exactly the one object of that triple,
\* {"@id":"a","b":[{"@id":"c"}]}.
C18_JSONLdOfOneTriple ==
    (last.op = "Serialize" /\ last.mime = "application/ld+json" /\ HoldsOnlyABC)
    => last.out = <<"{", "\"", "@", "i", "d", "\"", ":", "\"", "a", "\"", ",",
                    "\"", "b", "\"", ":", "[",
                    "{", "\"", "@", "i", "d", "\"", ":", "\"", "c", "\"", "}",
                    "]", "}">>

\* C19: Serialize with "application/ld+json" completes without a failure
\* for every graph whose subjects are IRIs or blank nodes and whose objects
\* are IRIs, literals or blank nodes.
C19_JSONLdCompletes ==
    (/\ last.op = "Serialize" /\ last.mime = "application/ld+json"
     /\ \A t \in triples :
           /\ heap[t].Subject.kind \in {"Resource", "BlankNode"}
           /\ heap[t].Predicate.kind = "Resource"
           /\ heap[t].Object.kind \in {"Resource", "Literal", "BlankNode"})
    => ~last.panic /\ last.err = Nil

(***************************************************************************)
(* Properties of the conversion layer.                                     *)
(***************************************************************************)
\* An IRI, a blank node, a plain literal, a literal with a language only,
\* or a literal with an IRI datatype only.
IsConvertible(t) ==
    \/ t.kind \in {"Resource", "BlankNode"}
    \/ /\ t.kind = "Literal"
       /\ \/ t.Language = <<>> /\ t.Datatype = Nil
          \/ t.Language # <<>> /\ t.Datatype = Nil
          \/ t.Language = <<>> /\ t.Datatype # Nil /\ t.Datatype.kind = "Resource"

\* C20: for an IRI, a blank node, a plain literal, a literal with a
\* language and a literal with an IRI datatype, the term that comes back
\* from rdf2term(term2rdf(t)) and from jterm2term(term2jterm(t)) is Equal
\* to t and has the variant, value, language and datatype of t.
C20_ConversionRoundTrips ==
    (last.op \in {"rdf2term(term2rdf)", "jterm2term(term2jterm)"} /\ IsConvertible(last.t))
    => last.result = TRUE /\ last.back = last.t

\* A literal with a language has gone through gojsonld's terms and back.
C20_Witness ==
    /\ last.op = "jterm2term(term2jterm)"
    /\ last.t.kind = "Literal" /\ last.t.Language = <<"e">> /\ last.t.Datatype = Nil
    /\ last.t.Value = <<"a", "b">>
    /\ last.result = TRUE

(***************************************************************************)
(* Properties of repeated lookups.                                         *)
(***************************************************************************)
\* C21: two consecutive calls One(s, p, o) with the same pattern on the
\* same unmodified graph return the same stored triple, also when several
\* stored triples match the pattern.
C21_OneDeterministic ==
    [][(/\ last.op = "One"
        /\ last'.op = "One"
        /\ last'.s = last.s /\ last'.p = last.p /\ last'.o = last.o
        /\ triples' = triples /\ heap' = heap)
       => last'.result = last.result]_vars

\* C22: ReadFile returns normally and leaves the triple set unchanged when
\* the file is missing, is a directory, or is unreadable (the stat or the
\* open reports any error).
C22_ReadFileNeverFails ==
    (last.op = "ReadFile"
     /\ (last.file.stat # "file" \/ last.file.open # "ok"))
    => (~last.panic /\ triples = last.pre)

\* The part of s before its first "#"; s itself when it holds none.
BeforeFirstHash(s) ==
    IF \E i \in 1..Len(s) : s[i] = "#"
    THEN SubSeq(s, 1, (CHOOSE i \in 1..Len(s) :
                          /\ s[i] = "#"
                          /\ \A j \in 1..(i - 1) : s[j] # "#") - 1)
    ELSE s

\* C26: the URI LoadURI requests is defrag of its argument; it contains no
\* "#" and equals the part of the argument before its first "#", also when
\* the argument contains more than one "#".
C26_DefragStripsFragment ==
    last.op = "LoadURI"
    => /\ \A i \in 1..Len(last.doc) : last.doc[i] # "#"
       /\ last.doc = BeforeFirstHash(last.uri)

\* C24: Serialize uses the JSON-LD renderer exactly when mime is
\* "application/ld+json" and the Turtle-style renderer for every other
\* mime (empty, unregistered, or registered in the serializer table such
\* as "text/html"); it returns no unsupported-format error and leaves the
\* triple set as it was.
C24_SerializeDispatch ==
    last.op = "Serialize"
    => /\ last.renderer \in {"serializeJSONLd", "serializeTurtle"}
       /\ last.renderer = "serializeJSONLd" <=> last.mime = "application/ld+json"
       /\ (last.renderer = "serializeTurtle" /\ ~last.panic) => Head(last.out) = "\n"
       /\ (last.renderer = "serializeJSONLd" /\ ~last.panic) => Head(last.out) = "["
       /\ last.err = Nil
       /\ triples = last.pre

C24_Witness ==
    /\ last.op = "Serialize"
    /\ last.mime = "text/html"
    /\ last.renderer = "serializeTurtle"
    /\ triples # {}
    /\ Head(last.out) = "\n"

\* The lines of the Turtle-style output last written.
TurtleLines == Split(last.out, "\n")

\* A line that opens a block: the subject's canonical text.
IsSubjectLine(l) == Len(l) > 0 /\ l[1] # " "

\* A predicate/object line: indented by two spaces and longer than the
\* line "  ." that closes a block.
IsPairLine(l) == Len(l) > 3 /\ l[1] = " " /\ l[2] = " "

\* The subject line of the block that line i of the output lies in.
BlockSubject(i) ==
    TurtleLines[CHOOSE j \in 1..(i - 1) :
                    /\ IsSubjectLine(TurtleLines[j])
                    /\ \A k \in (j + 1)..(i - 1) : ~IsSubjectLine(TurtleLines[k])]

\* The predicate/object line of a stored triple.
PairLineOf(t) ==
    <<" ", " ">> \o encodeTerm(heap[t].Predicate) \o <<" ">>
    \o encodeTerm(heap[t].Object) \o <<" ", ";">>

\* C25: the Turtle-style output has exactly one block per distinct subject
\* canonical text in the store; each stored entry contributes exactly one
\* predicate/object line, in the block of its own subject (value-equal
\* duplicate entries give repeated lines); the number of predicate/object
\* lines equals Len().
C25_TurtleGroupsBySubject ==
    (last.op = "Serialize" /\ last.renderer = "serializeTurtle")
    => LET lines == TurtleLines
           subjectLines == {i \in DOMAIN lines : IsSubjectLine(lines[i])}
           pairLines == {i \in DOMAIN lines : IsPairLine(lines[i])}
           stored == {encodeTerm(heap[t].Subject) : t \in triples}
       IN  /\ {lines[i] : i \in subjectLines} = stored
           /\ Cardinality(subjectLines) = Cardinality(stored)
           /\ Cardinality(pairLines) = GraphLen
           /\ \A i \in pairLines : \E j \in subjectLines : j < i
           /\ \A s \in stored : \A t \in triples :
                 encodeTerm(heap[t].Subject) = s
                 => Cardinality({i \in pairLines :
                                    /\ BlockSubject(i) = s
                                    /\ lines[i] = PairLineOf(t)})
                    = Cardinality({u \in triples :
                                    /\ encodeTerm(heap[u].Subject) = s
                                    /\ PairLineOf(u) = PairLineOf(t)})

\* Two value-equal entries are stored and were written by the Turtle-style
\* renderer.
C25_Witness ==
    /\ last.op = "Serialize"
    /\ last.renderer = "serializeTurtle"
    /\ Cardinality(triples) = 2
    /\ \A t, u \in triples : heap[t] = heap[u]
    /\ Cardinality({i \in DOMAIN TurtleLines : IsPairLine(TurtleLines[i])}) = 2

(***************************************************************************)
(* One against All.                                                        *)
(***************************************************************************)
\* C28: for every pattern with at least one concrete position, One is
\* non-nil exactly when All is non-empty, the triple One returns is an
\* element of All's result, All returns at most Len() triples, and neither
\* call changes the graph's triple set, URI or Term. The call made last is
\* compared with every result the other call can give in the same state.
C28_OneAndAllAgree ==
    (last.op \in {"One", "All"} /\ SomeConcrete(last.s, last.p, last.o))
    => /\ triples = last.pre
       /\ g_uri = last.preURI
       /\ g_term = last.preTerm
       /\ last.op = "One" =>
             \A order \in Orders(triples) :
                LET all == All(order, last.s, last.p, last.o)
                IN  /\ last.result # NilTriple <=> all # <<>>
                    /\ last.result # NilTriple => last.result \in Range(all)
       /\ last.op = "All" =>
             /\ Len(last.result) <= GraphLen
             /\ \A order \in Orders(triples) :
                   LET one == One(order, last.s, last.p, last.o)
                   IN  /\ one # NilTriple <=> last.result # <<>>
                       /\ one # NilTriple => one \in Range(last.result)

\* One returned a triple for a pattern with a concrete and a nil position
\* that two stored triples match.
C28_Witness ==
    /\ last.op = "One"
    /\ last.s # Nil /\ last.p = Nil /\ last.o # Nil
    /\ last.result # NilTriple
    /\ \E order \in Orders(triples) :
          Len(All(order, last.s, last.p, last.o)) = 2

(***************************************************************************)
(* Properties of IterTriples and the loops that receive from it.           *)
(***************************************************************************)
\* The call that returned last read its channel to the end, and the graph
\* was not written while the channel's goroutine could read it.
DrainedUnraced ==
    /\ last.op \in IterOps
    /\ last.drained
    /\ ~chans[last.ch].raced

\* Caller k is in All or in a serializer.
Draining(k) == call[k].op \in {"All", "serializeTurtle", "serializeJSONLd"}

\* C23: a call of IterTriples on a graph that is not mutated meanwhile,
\* read to the end, delivers every stored triple exactly once and nothing
\* else, after which the channel is closed and its goroutine has ended;
\* this holds for each of several calls in progress together, and every
\* call of All and of the serializers returns.
C23_IterTriplesDeliversAll ==
    /\ [](DrainedUnraced =>
             /\ Len(last.got) = Cardinality(last.pre)
             /\ Range(last.got) = last.pre
             /\ chans[last.ch].sent = Len(last.got)
             /\ chans[last.ch].pc = "done")
    /\ \A k \in Callers : Draining(k) ~> ~Draining(k)

\* All has read both stored triples to the end while the channel of an
\* earlier One is still open.
C23_Witness ==
    /\ DrainedUnraced
    /\ last.op = "All"
    /\ Len(last.got) = 2
    /\ \E c \in DOMAIN chans : c # last.ch /\ chans[c].pc # "done"

\* The method that ranged over channel c was One and has returned.
LeftByOne(c) == chans[c].op = "One" /\ ~HasReceiver(c)

\* C27: when One has returned while the goroutine of its channel still has
\* triples to send, that goroutine never ends and never closes the
\* channel: it stays at its range clause or at a send that cannot
\* complete. The goroutine of One's channel has ended only when every
\* triple of its range was sent.
C27_OneLeavesProducerBlocked ==
    \A c \in DOMAIN chans :
        LeftByOne(c) =>
           /\ chans[c].sent < Len(chans[c].order) =>
                 /\ chans[c].pc \in {"range", "send"}
                 /\ ~SendEnabled(c)
           /\ chans[c].pc = "done" => chans[c].sent = Len(chans[c].order)

\* One has returned a match that was not the last triple of the range, and
\* the goroutine is at its send.
C27_Witness ==
    /\ last.op = "One"
    /\ last.result # NilTriple
    /\ LeftByOne(last.ch)
    /\ chans[last.ch].sent < Len(chans[last.ch].order)
    /\ chans[last.ch].pc = "send"
    /\ Cardinality(triples) = 2

=============================================================================
